---- MODULE Spec2Model ----
(***************************************************************************)
(* merge_animations.py: the avatar pipeline's animation merge step.        *)
(*                                                                         *)
(* The script is one sequential procedure over the host application's      *)
(* scene.  The host (bpy), the file system and the platform are the        *)
(* environment: their state is drawn in Init and the outcome of each host  *)
(* call the script reacts to (an import that raises, an import without     *)
(* animation data, an export that writes nothing) is drawn with \E in the  *)
(* action that makes the call.  Host calls the script does not guard and   *)
(* whose failure it never inspects (open_mainfile, nla_tracks.new,         *)
(* object.delete, os.makedirs) are taken to return normally, and the       *)
(* importer leaves exactly the objects it created selected.                *)
(*                                                                         *)
(* File names are sequences of character codes, so that matching, case     *)
(* folding, sorting and extension splitting are computed, not assumed.     *)
(***************************************************************************)
EXTENDS Integers, Sequences, FiniteSets, TLC

\* ------------------------------------------------------------------ bounds
\* at most this many entries in the --anims directory
MaxFiles == 2
\* at most this many objects in the master file
MaxMasterObjs == 2

\* ------------------------------------------------------- names and strings
\* "a.fbx", "a.FBX", "B.Fbx", "c.fbx", "b.txt"
NameUniverse ==
    { <<97, 46, 102, 98, 120>>,
      <<97, 46, 70, 66, 88>>,
      <<66, 46, 70, 98, 120>>,
      <<99, 46, 102, 98, 120>>,
      <<98, 46, 116, 120, 116>> }

\* the two glob patterns of the script: "*.fbx" and "*.FBX"
fbx_pattern_lower == <<42, 46, 102, 98, 120>>
fbx_pattern_upper == <<42, 46, 70, 66, 88>>

\* the name the importer gives a new action ("T"), and the name of the
\* action a master file may already carry ("idle")
ImportedActionName == <<84>>
MasterActionName == <<105, 100, 108, 101>>

Range(s) == { s[i] : i \in DOMAIN s }

LowerChar(c) == IF c \in 65..90 THEN c + 32 ELSE c

Lower(s) == [i \in DOMAIN s |-> LowerChar(s[i])]

\* str < str in Python: lexicographic on code points
LexLess(a, b) ==
    \/ \E i \in 1..Len(a) :
          /\ i <= Len(b)
          /\ a[i] < b[i]
          /\ \A j \in 1..(i - 1) : a[j] = b[j]
    \/ /\ Len(a) < Len(b)
       /\ \A j \in 1..Len(a) : a[j] = b[j]

RECURSIVE SortedSet(_)
\* sorted(S) of a set of distinct strings
SortedSet(S) ==
    IF S = {} THEN <<>>
    ELSE LET m == CHOOSE x \in S : \A y \in S : x = y \/ LexLess(x, y)
         IN  <<m>> \o SortedSet(S \ {m})

RECURSIVE FnMatch(_, _)
\* fnmatch of a name against a pattern whose only wildcard is '*' (42)
FnMatch(name, pat) ==
    IF pat = <<>> THEN name = <<>>
    ELSE IF Head(pat) = 42
         THEN \/ FnMatch(name, Tail(pat))
              \/ name # <<>> /\ FnMatch(Tail(name), pat)
         ELSE /\ name # <<>>
              /\ Head(name) = Head(pat)
              /\ FnMatch(Tail(name), Tail(pat))

\* glob._ishidden: a leading '.'
IsHidden(name) == name # <<>> /\ name[1] = 46

\* index of the last '.', 0 when there is none
LastDot(name) ==
    IF \E i \in DOMAIN name : name[i] = 46
    THEN CHOOSE i \in DOMAIN name :
             name[i] = 46 /\ \A j \in (i + 1)..Len(name) : name[j] # 46
    ELSE 0

\* os.path.splitext: the last dot splits, unless only dots precede it
HasExt(name) ==
    LET d == LastDot(name)
    IN  d > 0 /\ \E j \in 1..(d - 1) : name[j] # 46

SplitRoot(name) ==
    IF HasExt(name) THEN SubSeq(name, 1, LastDot(name) - 1) ELSE name

SplitExt(name) ==
    IF HasExt(name) THEN SubSeq(name, LastDot(name), Len(name)) ELSE <<>>

\* ------------------------------------------------------------------- state
VARIABLES
    \* environment
    normcaseLowers,   \* os.path.normcase folds case (Windows) or not (POSIX)
    masterExists,     \* os.path.exists(master_path)
    masterFile,       \* the objects stored in the master file, in list order
    masterHasTrack,   \* the master skeleton already carries one NLA track
    dirFiles,         \* names of the entries of the --anims directory
    outputExists,     \* os.path.exists(output_path)
    outDirExists,     \* os.path.isdir(os.path.dirname(output_path))
    \* host
    castShadow,       \* hasattr(CyclesSettingsClass, "cast_shadow")
    lights,           \* bpy.data.lights
    objects,          \* bpy.data.objects / scene objects
    selected,         \* bpy.context.selected_objects
    actions,          \* bpy.data.actions
    animData,         \* master_armature.animation_data is not None
    tracks,           \* master_armature.animation_data.nla_tracks
    \* program
    pc,
    master_armature,  \* object id, 0 for None
    fbx_files,
    idx,              \* position in fbx_files of the file being processed
    success_count,
    exitStatus,       \* -1 while running
    \* history
    hist

vars == << normcaseLowers, masterExists, masterFile, masterHasTrack, dirFiles,
           outputExists, outDirExists, castShadow, lights, objects, selected,
           actions, animData, tracks, pc, master_armature, fbx_files, idx,
           success_count, exitStatus, hist >>

envVars == << normcaseLowers, masterExists, masterFile, masterHasTrack, dirFiles >>

ObjTypes == {"ARMATURE", "MESH"}

\* the object lists a master file may hold: a MESH is parented to the
\* nearest ARMATURE before it in the list, if there is one
MasterFiles ==
    UNION { [1..n -> ObjTypes] : n \in 0..MaxMasterObjs }

ParentIn(types, i) ==
    IF types[i] = "MESH" /\ \E j \in 1..(i - 1) : types[j] = "ARMATURE"
    THEN CHOOSE j \in 1..(i - 1) :
             types[j] = "ARMATURE"
             /\ \A k \in (j + 1)..(i - 1) : types[k] # "ARMATURE"
    ELSE 0

\* what an import can add to the scene, in selection order:
\* [type, par (position of the parent in the list, 0 for none), act]
Obj(t, p, a) == [type |-> t, par |-> p, act |-> a]

ImportShapes ==
    { << Obj("MESH", 0, FALSE) >>,
      << Obj("ARMATURE", 0, FALSE), Obj("MESH", 1, FALSE) >>,
      << Obj("ARMATURE", 0, TRUE), Obj("MESH", 1, FALSE) >>,
      << Obj("ARMATURE", 0, TRUE), Obj("MESH", 0, FALSE) >>,
      << Obj("ARMATURE", 0, FALSE), Obj("ARMATURE", 0, TRUE) >> }

NoHist ==
    [ lights0 |-> {}, castShadow0 |-> FALSE, injected |-> FALSE,
      patchRaised |-> FALSE, homefileRead |-> FALSE, mainfileOpened |-> FALSE,
      output0 |-> FALSE, outDir0 |-> FALSE, attempts |-> <<>>,
      exportCalls |-> 0, exportWrote |-> FALSE,
      reportedSuccess |-> FALSE, reportedComplete |-> FALSE,
      tracks0 |-> 0, nextObj |-> 1 ]

Init ==
    /\ normcaseLowers \in BOOLEAN
    /\ masterExists \in BOOLEAN
    /\ masterFile \in MasterFiles
    /\ masterExists = FALSE => masterFile = <<>>
    /\ masterHasTrack \in BOOLEAN
    /\ masterHasTrack => \E i \in DOMAIN masterFile : masterFile[i] = "ARMATURE"
    /\ dirFiles \in SUBSET NameUniverse
    /\ Cardinality(dirFiles) <= MaxFiles
    \* a case-folding file system holds no two names that differ in case only
    /\ normcaseLowers =>
          \A a, b \in dirFiles : Lower(a) = Lower(b) => a = b
    /\ outputExists \in BOOLEAN
    /\ outDirExists = outputExists
    /\ castShadow \in BOOLEAN
    /\ lights = {"Light"}
    /\ objects = {}
    /\ selected = <<>>
    /\ actions = {}
    /\ animData = FALSE
    /\ tracks = <<>>
    /\ pc = "patch"
    /\ master_armature = 0
    /\ fbx_files = <<>>
    /\ idx = 0
    /\ success_count = 0
    /\ exitStatus = -1
    /\ hist = [NoHist EXCEPT !.castShadow0 = castShadow,
                             !.output0 = outputExists,
                             !.outDir0 = outDirExists]

\* ---------------------------------------------------------- the host's names
Suffix(k) == <<46, 48, 48, 48 + k>>

\* the host keeps data-block names unique: a taken name gets ".001", ".002", ...
UniqueName(base, taken) ==
    IF base \notin taken THEN base
    ELSE LET k == CHOOSE n \in 1..9 :
                      /\ (base \o Suffix(n)) \notin taken
                      /\ \A m \in 1..(n - 1) : (base \o Suffix(m)) \in taken
         IN  base \o Suffix(k)

ActionNames(except) == { a.name : a \in { b \in actions : b.id # except } }

ObjById(id) == CHOOSE o \in objects : o.id = id

\* ------------------------------------------------------ apply_nuclear_patch
\* The steps of the try block that can raise: lights.new, the access to
\* temp_light.cycles, the setattr on the runtime class (reached only when the
\* class lacks the attribute).  "none": every step returns.
PatchOutcomes == {"none", "new", "cycles", "setattr"}

\* the probe light is removed on the last line of the try block only
PatchLights(fail) ==
    IF fail \in {"cycles", "setattr"} THEN lights \cup {"Patch_Probe"} ELSE lights

ApplyNuclearPatch ==
    /\ pc = "patch"
    /\ \E fail \in PatchOutcomes :
          /\ fail = "setattr" => ~castShadow
          /\ lights' = PatchLights(fail)
          /\ castShadow' = (castShadow \/ fail = "none")
          /\ hist' = [hist EXCEPT !.lights0 = lights,
                                  !.injected = (fail = "none" /\ ~castShadow),
                                  !.patchRaised = (fail # "none")]
    /\ pc' = "clear"
    /\ UNCHANGED << envVars, outputExists, outDirExists, objects, selected,
                    actions, animData, tracks, master_armature, fbx_files,
                    idx, success_count, exitStatus >>

\* ----------------------------------------------------------- main, step 1
MasterMissingNever == FALSE

MasterMissing == ~masterExists

\* read_homefile(use_empty=True), then the os.path.exists check
ClearAndCheckMaster ==
    /\ pc = "clear"
    /\ lights' = {}
    /\ objects' = {}
    /\ selected' = <<>>
    /\ actions' = {}
    /\ hist' = [hist EXCEPT !.homefileRead = TRUE]
    /\ IF MasterMissing
       THEN pc' = "exit" /\ exitStatus' = 1
       ELSE pc' = "open" /\ exitStatus' = exitStatus
    /\ UNCHANGED << envVars, outputExists, outDirExists, castShadow, animData,
                    tracks, master_armature, fbx_files, idx, success_count >>

MasterObjects ==
    { [id |-> i, type |-> masterFile[i], parent |-> ParentIn(masterFile, i),
       action |-> 0, origin |-> 0] : i \in DOMAIN masterFile }

Strip(name, act) == [name |-> name, action |-> act]
Track(name, act) == [name |-> name, strips |-> << Strip(name, act) >>]

\* open_mainfile(filepath=master_path)
OpenMainfile ==
    /\ pc = "open"
    /\ objects' = MasterObjects
    /\ actions' = IF masterHasTrack
                  THEN {[id |-> 1, name |-> MasterActionName]} ELSE {}
    /\ animData' = masterHasTrack
    /\ tracks' = IF masterHasTrack THEN << Track(MasterActionName, 1) >> ELSE <<>>
    /\ hist' = [hist EXCEPT !.mainfileOpened = TRUE,
                            !.tracks0 = Len(tracks'),
                            !.nextObj = Len(masterFile) + 1]
    /\ pc' = "findArmature"
    /\ UNCHANGED << envVars, outputExists, outDirExists, castShadow, lights,
                    selected, master_armature, fbx_files, idx, success_count,
                    exitStatus >>

\* ----------------------------------------------------------- main, step 2
\* the first ARMATURE of bpy.data.objects, 0 (None) when there is none
LastArmature(list) ==
    IF \E i \in DOMAIN list : list[i] = "ARMATURE"
    THEN CHOOSE i \in DOMAIN list :
             list[i] = "ARMATURE" /\ \A j \in (i + 1)..Len(list) : list[j] # "ARMATURE"
    ELSE 0

FirstArmature(list) ==
    IF \E i \in DOMAIN list : list[i] = "ARMATURE"
    THEN CHOOSE i \in DOMAIN list :
             list[i] = "ARMATURE" /\ \A j \in 1..(i - 1) : list[j] # "ARMATURE"
    ELSE 0

FindMasterArmature ==
    /\ pc = "findArmature"
    /\ master_armature' = FirstArmature(masterFile)
    /\ IF master_armature' = 0
       THEN pc' = "exit" /\ exitStatus' = 1
       ELSE pc' = "glob" /\ exitStatus' = exitStatus
    /\ UNCHANGED << envVars, outputExists, outDirExists, castShadow, lights,
                    objects, selected, actions, animData, tracks, fbx_files,
                    idx, success_count, hist >>

\* ----------------------------------------------------------- main, step 3
\* os.path.normcase
Normcase(s) == IF normcaseLowers THEN Lower(s) ELSE s

\* glob.glob(os.path.join(anims_dir, pat)): hidden entries are dropped, the
\* rest is filtered by fnmatch, which normcases the pattern and the names.
\* os.listdir gives no order; the script sorts the result afterwards.
Glob(pat) ==
    SortedSet({ n \in dirFiles :
                  ~IsHidden(n) /\ FnMatch(Normcase(n), Normcase(pat)) })

\* sorted(set(glob(lower) + glob(upper)))
EnumerateFiles == SortedSet(Range(Glob(fbx_pattern_lower) \o Glob(fbx_pattern_upper)))

\* after the file at position i: the next file, or the export after the last
NextPcEarly(i) == "export"

NextPc(i) == IF i < Len(fbx_files) THEN "import" ELSE "export"

FindAnimationFiles ==
    /\ pc = "glob"
    /\ fbx_files' = EnumerateFiles
    /\ success_count' = 0
    /\ idx' = IF fbx_files' = <<>> THEN 0 ELSE 1
    /\ pc' = IF fbx_files' = <<>> THEN "export" ELSE "import"
    /\ UNCHANGED << envVars, outputExists, outDirExists, castShadow, lights,
                    objects, selected, actions, animData, tracks,
                    master_armature, exitStatus, hist >>

\* ------------------------------------------------- main, the per-file loop
\* os.path.splitext(os.path.basename(fbx_path))[0]
AnimName(path) == SplitRoot(path)

Attempt(path, raised, objs) ==
    [path |-> path, raised |-> raised, objs |-> objs, chosen |-> 0]

\* the except branch leaving the loop instead of continuing
ImportRaisesAborts ==
    /\ pc = "import"
    /\ hist' = [hist EXCEPT !.attempts =
                   Append(@, Attempt(fbx_files[idx], TRUE, <<>>))]
    /\ idx' = idx + 1
    /\ pc' = "export"
    /\ UNCHANGED << envVars, outputExists, outDirExists, castShadow, lights,
                    objects, selected, actions, animData, tracks,
                    master_armature, fbx_files, success_count, exitStatus >>

\* the import raises: the except branch logs and continues with the next file
ImportRaises ==
    /\ pc = "import"
    /\ hist' = [hist EXCEPT !.attempts =
                   Append(@, Attempt(fbx_files[idx], TRUE, <<>>))]
    /\ idx' = idx + 1
    /\ pc' = NextPc(idx)
    /\ UNCHANGED << envVars, outputExists, outDirExists, castShadow, lights,
                    objects, selected, actions, animData, tracks,
                    master_armature, fbx_files, success_count, exitStatus >>

\* the objects an import of shape sh adds; each shape carries at most one
\* action, which the importer creates under a fresh id
NewObjects(sh, base, file) ==
    [ i \in DOMAIN sh |->
        [id |-> base + i - 1, type |-> sh[i].type,
         parent |-> IF sh[i].par = 0 THEN 0 ELSE base + sh[i].par - 1,
         action |-> IF sh[i].act THEN Cardinality(actions) + 1 ELSE 0,
         origin |-> file] ]

\* bpy.ops.import_scene.fbx returns: the new objects are in the scene and are
\* the selection, in the order the importer created them
ImportFbx ==
    /\ pc = "import"
    /\ \E sh \in ImportShapes :
          LET new == NewObjects(sh, hist.nextObj, idx)
          IN  /\ objects' = objects \cup Range(new)
              /\ selected' = [i \in DOMAIN new |-> new[i].id]
              /\ actions' =
                    IF \E i \in DOMAIN sh : sh[i].act
                    THEN actions \cup
                           {[id |-> Cardinality(actions) + 1,
                             name |-> UniqueName(ImportedActionName, ActionNames(0))]}
                    ELSE actions
              /\ hist' = [hist EXCEPT
                            !.attempts = Append(@, Attempt(fbx_files[idx], FALSE, new)),
                            !.nextObj = @ + Len(sh)]
    /\ pc' = "merge"
    /\ UNCHANGED << envVars, outputExists, outDirExists, castShadow, lights,
                    animData, tracks, master_armature, fbx_files, idx,
                    success_count, exitStatus >>

\* obj.type == 'ARMATURE' and obj != master_armature
IsImportedArmature(o) == o.type = "ARMATURE" /\ o.id # master_armature

\* the first such object of selected_objects, 0 (None) when there is none
ImportedArmature ==
    LET c == { i \in DOMAIN selected : IsImportedArmature(ObjById(selected[i])) }
    IN  IF c = {} THEN 0
        ELSE selected[CHOOSE i \in c : \A j \in c : i <= j]

\* imported_armature and its animation_data and its animation_data.action
HasAction(imp) == imp # 0 /\ ObjById(imp).action # 0

\* the parent test without the comparison
CleanupSelectsAnyChild(o, imp) == o.id = imp \/ o.parent # 0

\* obj == imported_armature or (obj.parent and obj.parent == imported_armature)
CleanupSelects(o, imp) == o.id = imp \/ (o.parent # 0 /\ o.parent = imp)

\* action.name = anim_name
RenameAction(act, name) ==
    { IF a.id = act
      THEN [a EXCEPT !.name = UniqueName(name, ActionNames(act))]
      ELSE a : a \in actions }

MergeImported ==
    /\ pc = "merge"
    /\ LET imp == ImportedArmature
           name == AnimName(fbx_files[idx])
       IN  /\ hist' = [hist EXCEPT !.attempts[idx].chosen = imp]
           /\ IF HasAction(imp)
              THEN LET act == ObjById(imp).action
                   IN  /\ actions' = RenameAction(act, name)
                       /\ animData' = TRUE
                       /\ tracks' = Append(tracks, Track(name, act))
                       /\ success_count' = success_count + 1
                       \* select_all(DESELECT), select_set, object.delete()
                       /\ objects' = { o \in objects : ~CleanupSelects(o, imp) }
                       /\ selected' = <<>>
              ELSE UNCHANGED << actions, animData, tracks, success_count,
                                objects, selected >>
    /\ idx' = idx + 1
    /\ pc' = NextPc(idx)
    /\ UNCHANGED << envVars, outputExists, outDirExists, castShadow, lights,
                    master_armature, fbx_files, exitStatus >>

\* ----------------------------------------------------------- main, step 4
\* what bpy.ops.export_scene.gltf leaves at output_path: the file, or nothing
ExportOutcomes == {"written", "nofile"}

\* os.makedirs(dirname, exist_ok=True), then the export call
ExportGltf ==
    /\ pc = "export"
    /\ outDirExists' = TRUE
    /\ \E out \in ExportOutcomes :
          /\ outputExists' = (outputExists \/ out = "written")
          /\ hist' = [hist EXCEPT !.exportCalls = @ + 1,
                                  !.exportWrote = (out = "written")]
    /\ pc' = "report"
    /\ UNCHANGED << envVars, castShadow, lights, objects, selected, actions,
                    animData, tracks, master_armature, fbx_files, idx,
                    success_count, exitStatus >>

\* if os.path.exists(output_path): ... else: sys.exit(1)
ReportResult ==
    /\ pc = "report"
    /\ IF outputExists
       THEN /\ hist' = [hist EXCEPT !.reportedSuccess = TRUE,
                                    !.reportedComplete = TRUE]
            /\ pc' = "done"
            /\ exitStatus' = 0
       ELSE /\ hist' = hist
            /\ pc' = "exit"
            /\ exitStatus' = 1
    /\ UNCHANGED << envVars, outputExists, outDirExists, castShadow, lights,
                    objects, selected, actions, animData, tracks,
                    master_armature, fbx_files, idx, success_count >>

Next ==
    \/ ApplyNuclearPatch
    \/ ClearAndCheckMaster
    \/ OpenMainfile
    \/ FindMasterArmature
    \/ FindAnimationFiles
    \/ ImportRaises
    \/ ImportFbx
    \/ MergeImported
    \/ ExportGltf
    \/ ReportResult

Spec == Init /\ [][Next]_vars

\* =================================================================== claims
Attempts == hist.attempts
Ids(objs) == { o.id : o \in objs }
Terminated == pc \in {"done", "exit"}
\* the tracks the run has added to the master skeleton
AddedTracks == SubSeq(tracks, hist.tracks0 + 1, Len(tracks))
\* the script is past the enumeration of the animation files
Enumerated == master_armature # 0 /\ pc # "glob"
ActionName(act) == (CHOOSE a \in actions : a.id = act).name

\* C1: when the master file does not exist the run ends with exit status 1,
\* and the master file is never opened, no animation file is imported, the
\* export is never called and no output file or directory is created.
C1_MissingMasterExits ==
    ~masterExists =>
        /\ ~hist.mainfileOpened
        /\ Attempts = <<>>
        /\ fbx_files = <<>>
        /\ hist.exportCalls = 0
        /\ outputExists = hist.output0
        /\ outDirExists = hist.outDir0
        /\ pc \in {"patch", "clear", "exit"}
        /\ pc = "exit" => exitStatus = 1
        /\ pc # "exit" => ENABLED Next

C1_Witness == ~masterExists /\ pc = "exit" /\ exitStatus = 1 /\ hist.homefileRead

\* C2: a master file without an ARMATURE ends the run with exit status 1
\* before any animation file is enumerated or imported and before the export;
\* otherwise the master skeleton is the first ARMATURE of the object list and
\* is the same object in every later state.
C2_MasterSkeleton ==
    (hist.mainfileOpened /\ pc # "findArmature") =>
        IF \A i \in DOMAIN masterFile : masterFile[i] # "ARMATURE"
        THEN /\ pc = "exit" /\ exitStatus = 1
             /\ master_armature = 0
             /\ fbx_files = <<>> /\ idx = 0
             /\ Attempts = <<>>
             /\ hist.exportCalls = 0
        ELSE /\ master_armature \in DOMAIN masterFile
             /\ masterFile[master_armature] = "ARMATURE"
             /\ \A j \in 1..(master_armature - 1) : masterFile[j] # "ARMATURE"

C2_Witness ==
    /\ hist.mainfileOpened
    /\ masterFile # <<>>
    /\ master_armature = 0
    /\ pc = "exit"

\* C3: whenever the export leaves no output file, the run ends with exit
\* status 1 and reports neither success nor completion, whatever was at the
\* output path before the run.
C3_FailedExportExits ==
    (hist.exportCalls > 0 /\ ~hist.exportWrote) =>
        /\ ~hist.reportedSuccess
        /\ ~hist.reportedComplete
        /\ pc # "report" => (pc = "exit" /\ exitStatus = 1)

\* an import that yielded no armature carrying an action
Unusable(objs) ==
    \A i \in DOMAIN objs : ~(objs[i].type = "ARMATURE" /\ objs[i].action # 0)

C4_Inv ==
    /\ \A i \in DOMAIN Attempts : i <= Len(fbx_files) /\ Attempts[i].path = fbx_files[i]
    /\ \A i, j \in DOMAIN fbx_files : i < j => LexLess(fbx_files[i], fbx_files[j])
    /\ pc = "import" => Len(Attempts) = idx - 1 /\ idx \in DOMAIN fbx_files
    /\ pc = "merge" => Len(Attempts) = idx /\ idx \in DOMAIN fbx_files
    /\ (Enumerated /\ pc \notin {"import", "merge"}) => Len(Attempts) = Len(fbx_files)
    /\ pc \in {"import", "merge"} => ENABLED Next

C4_Step ==
    /\ pc \in {"import", "merge"} =>
          /\ pc' \in {"import", "merge", "export"}
          /\ fbx_files' = fbx_files
    /\ (pc = "import" /\ pc' # "merge") =>
          /\ tracks' = tracks
          /\ success_count' = success_count
    /\ (pc = "merge" /\ Unusable(Attempts[idx].objs)) =>
          /\ tracks' = tracks
          /\ success_count' = success_count

\* C4: a failure on one file never stops the batch: the files are attempted
\* once each in sorted order, a file whose import raises or yields no usable
\* animation data leaves the tracks and the success count as they were, and
\* the run goes on to the remaining files and then to the export.
C4_BatchContinues == []C4_Inv /\ [][C4_Step]_vars

C4_Witness ==
    /\ pc = "export"
    /\ Len(fbx_files) >= 2
    /\ Attempts[1].raised
    /\ ~Attempts[2].raised
    /\ success_count = 1

\* C5: the files processed are exactly the entries of the directory whose
\* extension is "fbx" in any mix of upper and lower case, each once.
C5_CaseInsensitive ==
    Enumerated =>
        /\ Range(fbx_files) =
              { n \in dirFiles : Lower(SplitExt(n)) = <<46, 102, 98, 120>> }
        /\ \A i, j \in DOMAIN fbx_files : fbx_files[i] = fbx_files[j] => i = j

\* name is path without its extension
IsBaseNameOf(name, path) ==
    LET n == Len(name)
    IN  /\ n + 1 <= Len(path)
        /\ SubSeq(path, 1, n) = name
        /\ path[n + 1] = 46
        /\ \A j \in (n + 2)..Len(path) : path[j] # 46

\* the positions of the files whose import returned an armature with an action
Carrying ==
    { i \in DOMAIN Attempts : ~Attempts[i].raised /\ ~Unusable(Attempts[i].objs) }

\* C6: at the export the tracks added by the run correspond one-to-one to the
\* files whose import succeeded and yielded an armature carrying an action;
\* each is named after the file's base name and holds one strip referencing
\* that file's action, renamed to the same name; the success count is the
\* number of tracks added.
C6_TrackPerClip ==
    pc = "export" =>
        /\ Len(AddedTracks) = Cardinality(Carrying)
        /\ success_count = Len(AddedTracks)
        /\ \A k \in DOMAIN AddedTracks :
              \E i \in Carrying :
                 /\ Cardinality({ j \in Carrying : j < i }) = k - 1
                 /\ IsBaseNameOf(AddedTracks[k].name, Attempts[i].path)
                 /\ Len(AddedTracks[k].strips) = 1
                 /\ \E m \in DOMAIN Attempts[i].objs :
                       /\ Attempts[i].objs[m].type = "ARMATURE"
                       /\ Attempts[i].objs[m].action = AddedTracks[k].strips[1].action
                 /\ ActionName(AddedTracks[k].strips[1].action) = AddedTracks[k].name

\* C7: when the export is called the scene holds no object added by an
\* animation import.
C7_ImportsDeleted ==
    pc = "export" => \A o \in objects : o.origin = 0

\* C8: reset, load, lookup, per-file loop, export, in this order; a run that
\* passes the master-file and skeleton checks calls the export exactly once,
\* after the last file, also when there is no file (success count 0); no
\* import follows the export.
C8_LinearRun ==
    /\ hist.mainfileOpened => hist.homefileRead
    /\ master_armature # 0 => hist.mainfileOpened
    /\ Attempts # <<>> => master_armature # 0
    /\ hist.exportCalls \in {0, 1}
    /\ hist.exportCalls = 1 =>
          /\ master_armature # 0
          /\ Len(Attempts) = Len(fbx_files)
          /\ pc \in {"report", "done", "exit"}
    /\ pc \in {"import", "merge"} => hist.exportCalls = 0
    /\ (master_armature # 0 /\ Terminated) => hist.exportCalls = 1
    /\ (hist.exportCalls = 1 /\ fbx_files = <<>>) => success_count = 0
    /\ pc \in {"open", "findArmature", "import", "merge", "export", "report"} =>
          ENABLED Next

C8_Witness ==
    /\ pc = "done"
    /\ fbx_files = <<>>
    /\ hist.exportCalls = 1
    /\ success_count = 0

\* C9: apply_nuclear_patch leaves the set of light data-blocks as it found
\* it on every path, and injects the mock only when the class lacks it.
C9_PatchLeavesLights ==
    pc = "clear" =>
        /\ lights = hist.lights0
        /\ hist.castShadow0 => (~hist.injected /\ castShadow)

\* the attempts that were merged
Merged == { i \in DOMAIN Attempts :
              /\ Attempts[i].chosen # 0
              /\ \E m \in DOMAIN Attempts[i].objs :
                    /\ Attempts[i].objs[m].id = Attempts[i].chosen
                    /\ Attempts[i].objs[m].action # 0 }

\* C10: between the skeleton lookup and the export the master skeleton is in
\* the scene, is never the imported armature of a file, and the cleanup has
\* deleted nothing but imported armatures and objects parented to them; the
\* objects of the master file are all still there.
C10_MasterUnharmed ==
    (master_armature # 0 /\ pc \in {"glob", "import", "merge", "export"}) =>
        /\ \E o \in objects : o.id = master_armature /\ o.type = "ARMATURE"
        /\ MasterObjects \subseteq objects
        /\ \A i \in DOMAIN Attempts : Attempts[i].chosen # master_armature
        /\ \A i \in DOMAIN Attempts : \A m \in DOMAIN Attempts[i].objs :
              LET o == Attempts[i].objs[m]
              IN  o.id \notin Ids(objects) =>
                     /\ i \in Merged
                     /\ (o.id = Attempts[i].chosen \/ o.parent = Attempts[i].chosen)

C10_Witness ==
    /\ pc = "export"
    /\ success_count >= 1
    /\ \E o \in objects : o.origin = 0 /\ o.parent = master_armature
    /\ \E i \in DOMAIN Attempts : \E m \in DOMAIN Attempts[i].objs :
          Attempts[i].objs[m].id \notin Ids(objects)

====
